---- MODULE Spec2Model ----
(***************************************************************************)
(* Model of the POST /api/predict handler of the UMKM prediction backend   *)
(* (main.py, predict) together with the Prediction schema (schemas.py)     *)
(* and the document store it writes to.                                    *)
(*                                                                         *)
(* Numbers: Python floats are modelled as exact rationals <<n, d>> with    *)
(* d > 0 and gcd(n, d) = 1.  Optional values are sequences of length 0     *)
(* (None) or carry the value itself; None is the empty tuple.              *)
(* Strings that the handler transforms (the method) are tuples of          *)
(* characters so that str.lower() is computed character by character.      *)
(***************************************************************************)
EXTENDS Integers, Sequences, FiniteSets, TLC

(***************************************************************************)
(* Bounds of the model                                                     *)
(***************************************************************************)
MaxLen == 3

MaxRequests == 3

(***************************************************************************)
(* Program constants                                                       *)
(***************************************************************************)
MinPoints == 2

WindowGe == 1

WindowLe == 90

PredictedGe == 0

(***************************************************************************)
(* Rational arithmetic (the float operations of the handler)               *)
(***************************************************************************)
None == <<>>

Abs(n) == IF n < 0 THEN -n ELSE n

RECURSIVE GCD(_, _)
GCD(a, b) == IF b = 0 THEN a ELSE GCD(b, a % b)

Norm(n, d) ==
    LET g == GCD(Abs(n), d)
    IN  <<(IF n < 0 THEN -(Abs(n) \div g) ELSE n \div g), d \div g>>

Frac(n, d) == IF d < 0 THEN Norm(-n, -d) ELSE Norm(n, d)

R(n) == <<n, 1>>

RAdd(x, y) == Norm(x[1] * y[2] + y[1] * x[2], x[2] * y[2])

RSub(x, y) == Norm(x[1] * y[2] - y[1] * x[2], x[2] * y[2])

RMul(x, y) == Norm(x[1] * y[1], x[2] * y[2])

RDivInt(x, k) == Norm(x[1], x[2] * k)

RGe(x, k) == x[1] >= k * x[2]

(***************************************************************************)
(* str.lower()                                                             *)
(***************************************************************************)
LowerChar(c) ==
    CASE c = "A" -> "a"
      [] c = "E" -> "e"
      [] c = "I" -> "i"
      [] c = "M" -> "m"
      [] c = "R" -> "r"
      [] c = "S" -> "s"
      [] OTHER   -> c

Lower(s) == [i \in 1..Len(s) |-> LowerChar(s[i])]

sma == <<"s", "m", "a">>

ema == <<"e", "m", "a">>

(***************************************************************************)
(* Request inputs                                                          *)
(***************************************************************************)
Threads == {"t1", "t2"}

Vals == {R(-1), R(3)}

Half == <<1, 2>>

RECURSIVE SeqsUpTo(_, _)
SeqsUpTo(S, n) ==
    IF n = 0 THEN {<<>>}
    ELSE LET shorter == SeqsUpTo(S, n - 1)
         IN  shorter \cup {Append(s, x) : s \in {q \in shorter : Len(q) = n - 1}, x \in S}

SeriesSet == SeqsUpTo(Vals \cup {None}, MaxLen)

Methods == {sma, <<"S", "M", "A">>, ema, <<"E", "m", "a">>, <<"a", "r", "i", "m", "a">>}

Windows == {-1, 0, 1, 2, 3, 90, 91}

Alphas == {None, Half, R(2)}

Requests == [series : SeriesSet, method : Methods, window : Windows, alpha : Alphas]

SeqSeries == {<<R(3)>>, <<R(-1), R(3)>>, <<None, R(-1), R(3)>>, <<R(-1), R(-1)>>}

SeqMethods == {sma, <<"E", "m", "a">>, <<"a", "r", "i", "m", "a">>}

SeqWindows == {0, 2, 91}

SeqAlphas == {None, Half}

SeqRequests == [series : SeqSeries, method : SeqMethods, window : SeqWindows, alpha : SeqAlphas]

(***************************************************************************)
(* State                                                                   *)
(***************************************************************************)
VARIABLES pc, req, data, method, pred_value, pred_doc, inserted_id, resp,
          store, computations, createCalls, served

vars == <<pc, req, data, method, pred_value, pred_doc, inserted_id, resp,
          store, computations, createCalls, served>>

NoId == 0

NoResp == [kind |-> "none"]

(***************************************************************************)
(* predict, lines 87-89: cleaning and the length check                     *)
(***************************************************************************)
RECURSIVE Clean_UntilNull(_)
Clean_UntilNull(series) ==
    IF series = <<>> \/ Head(series) = None THEN <<>>
    ELSE <<Head(series)>> \o Clean_UntilNull(Tail(series))

RECURSIVE Clean(_)
Clean(series) ==
    IF series = <<>> THEN <<>>
    ELSE IF Head(series) # None THEN <<Head(series)>> \o Clean(Tail(series))
         ELSE Clean(Tail(series))

TooShort_Empty(d) == Len(d) < 1

TooShort(d) == Len(d) < MinPoints

ErrTooShort == [kind |-> "http_error", status |-> 400, detail |-> "Series minimal 2 angka"]

ErrUnknownMethod ==
    [kind |-> "http_error", status |-> 400,
     detail |-> "Method tidak dikenal. Pakai 'sma' atau 'ema'"]

ErrZeroDivision == [kind |-> "exception", exc |-> "ZeroDivisionError"]

(***************************************************************************)
(* predict, lines 94-97: simple moving average                             *)
(***************************************************************************)
Min(a, b) == IF a < b THEN a ELSE b

Max(a, b) == IF a > b THEN a ELSE b

SmaWindow_NoFloor(window, n) == Min(window, n)

SmaWindow(window, n) == Max(1, Min(window, n))

\* Python d[-w:] : d[0:] when w = 0, d[k:] when -w = k > 0, the last w otherwise
LastSlice(d, w) ==
    IF w = 0 \/ w >= Len(d) THEN d
    ELSE IF w < 0 THEN SubSeq(d, 1 - w, Len(d))
    ELSE SubSeq(d, Len(d) - w + 1, Len(d))

RECURSIVE Sum(_)
Sum(s) == IF s = <<>> THEN R(0) ELSE RAdd(Sum(SubSeq(s, 1, Len(s) - 1)), s[Len(s)])

Sma(d, window) ==
    LET w == SmaWindow(window, Len(d))
        window_vals == LastSlice(d, w)
    IN  RDivInt(Sum(window_vals), Len(window_vals))

(***************************************************************************)
(* predict, lines 98-104: exponential moving average                       *)
(***************************************************************************)
AlphaRaises(alpha, window) == alpha = None /\ window + 1 = 0

EmaAlpha(alpha, window) == IF alpha # None THEN alpha ELSE Frac(2, window + 1)

EmaStart_Carried(d) == IF store # <<>> THEN store[Len(store)].predicted_value ELSE d[1]

EmaStart(d) == d[1]

EmaStep_Swapped(a, v, e) == RAdd(RMul(RSub(R(1), a), v), RMul(a, e))

EmaStep(a, v, e) == RAdd(RMul(a, v), RMul(RSub(R(1), a), e))

RECURSIVE EmaFold(_, _, _)
EmaFold(e, rest, a) ==
    IF rest = <<>> THEN e
    ELSE EmaFold(EmaStep(a, Head(rest), e), Tail(rest), a)

Ema(d, a) == EmaFold(EmaStart(d), Tail(d), a)

(***************************************************************************)
(* schemas.py, Prediction: field constraints                               *)
(***************************************************************************)
PredictionDoc(m, window, points, value) ==
    [method |-> m, window |-> window, input_points |-> points, predicted_value |-> value]

PredictionValid_NoUpper(doc) ==
    /\ doc.window >= WindowGe
    /\ RGe(doc.predicted_value, PredictedGe)

PredictionValid(doc) ==
    /\ doc.window >= WindowGe
    /\ doc.window <= WindowLe
    /\ RGe(doc.predicted_value, PredictedGe)

(***************************************************************************)
(* predict, lines 120-125: the response                                    *)
(***************************************************************************)
Response_Propagate(value, m, window, id) ==
    IF id = NoId
    THEN [kind |-> "http_error", status |-> 500, detail |-> "persistence failed"]
    ELSE [kind |-> "ok", predicted |-> value, method |-> m, window |-> window, saved_id |-> id]

Response(value, m, window, id) ==
    [kind |-> "ok", predicted |-> value, method |-> m, window |-> window, saved_id |-> id]

(***************************************************************************)
(* Initial states                                                          *)
(***************************************************************************)
Locals0 ==
    /\ data = [t \in Threads |-> <<>>]
    /\ method = [t \in Threads |-> <<>>]
    /\ pred_value = [t \in Threads |-> None]
    /\ pred_doc = [t \in Threads |-> <<>>]
    /\ inserted_id = [t \in Threads |-> NoId]
    /\ resp = [t \in Threads |-> NoResp]
    /\ store = <<>>
    /\ computations = 0
    /\ createCalls = 0

\* One request in flight on a fresh server, drawn from the whole input domain.
Init ==
    /\ \E r \in Requests :
          req = [t \in Threads |-> IF t = "t1" THEN <<r>> ELSE <<>>]
    /\ pc = [t \in Threads |-> IF t = "t1" THEN "start" ELSE "idle"]
    /\ served = 1
    /\ Locals0

\* A fresh server with its worker threads idle.
InitSeq ==
    /\ req = [t \in Threads |-> <<>>]
    /\ pc = [t \in Threads |-> "idle"]
    /\ served = 0
    /\ Locals0

(***************************************************************************)
(* Steps of the handler                                                    *)
(***************************************************************************)
Receive(t, r) ==
    /\ pc[t] = "idle"
    /\ served < MaxRequests
    /\ served' = served + 1
    /\ req' = [req EXCEPT ![t] = <<r>>]
    /\ pc' = [pc EXCEPT ![t] = "start"]
    /\ UNCHANGED <<data, method, pred_value, pred_doc, inserted_id, resp,
                   store, computations, createCalls>>

Validate(t) ==
    /\ pc[t] = "start"
    /\ LET d == Clean(req[t][1].series)
       IN  /\ data' = [data EXCEPT ![t] = d]
           /\ IF TooShort(d)
              THEN /\ resp' = [resp EXCEPT ![t] = ErrTooShort]
                   /\ pc' = [pc EXCEPT ![t] = "done"]
              ELSE /\ pc' = [pc EXCEPT ![t] = "checked"]
                   /\ UNCHANGED resp
    /\ UNCHANGED <<req, method, pred_value, pred_doc, inserted_id,
                   store, computations, createCalls, served>>

Compute(t) ==
    /\ pc[t] = "checked"
    /\ LET r == req[t][1]
           m == Lower(r.method)
       IN  /\ method' = [method EXCEPT ![t] = m]
           /\ IF m = sma
              THEN /\ pred_value' = [pred_value EXCEPT ![t] = Sma(data[t], r.window)]
                   /\ computations' = computations + 1
                   /\ pc' = [pc EXCEPT ![t] = "computed"]
                   /\ UNCHANGED resp
              ELSE IF m = ema
              THEN IF AlphaRaises(r.alpha, r.window)
                   THEN /\ resp' = [resp EXCEPT ![t] = ErrZeroDivision]
                        /\ pc' = [pc EXCEPT ![t] = "done"]
                        /\ UNCHANGED <<pred_value, computations>>
                   ELSE /\ pred_value' = [pred_value EXCEPT ![t] =
                                             Ema(data[t], EmaAlpha(r.alpha, r.window))]
                        /\ computations' = computations + 1
                        /\ pc' = [pc EXCEPT ![t] = "computed"]
                        /\ UNCHANGED resp
              ELSE /\ resp' = [resp EXCEPT ![t] = ErrUnknownMethod]
                   /\ pc' = [pc EXCEPT ![t] = "done"]
                   /\ UNCHANGED <<pred_value, computations>>
    /\ UNCHANGED <<req, data, pred_doc, inserted_id, store, createCalls, served>>

\* create_document("prediction", doc): inserts and returns the id, or raises.
CreateDocument(t, doc, ok) ==
    /\ createCalls' = createCalls + 1
    /\ IF ok
       THEN /\ store' = Append(store, doc)
            /\ inserted_id' = [inserted_id EXCEPT ![t] = Len(store) + 1]
       ELSE /\ store' = store
            /\ inserted_id' = [inserted_id EXCEPT ![t] = NoId]

Persist(t) ==
    /\ pc[t] = "computed"
    /\ LET doc == PredictionDoc(method[t], req[t][1].window, data[t], pred_value[t])
       IN  IF PredictionValid(doc)
           THEN /\ pred_doc' = [pred_doc EXCEPT ![t] = <<doc>>]
                /\ \E ok \in BOOLEAN : CreateDocument(t, doc, ok)
           ELSE /\ inserted_id' = [inserted_id EXCEPT ![t] = NoId]
                /\ UNCHANGED <<pred_doc, store, createCalls>>
    /\ pc' = [pc EXCEPT ![t] = "persisted"]
    /\ UNCHANGED <<req, data, method, pred_value, resp, computations, served>>

Respond(t) ==
    /\ pc[t] = "persisted"
    /\ resp' = [resp EXCEPT ![t] =
                   Response(pred_value[t], method[t], req[t][1].window, inserted_id[t])]
    /\ pc' = [pc EXCEPT ![t] = "done"]
    /\ UNCHANGED <<req, data, method, pred_value, pred_doc, inserted_id,
                   store, computations, createCalls, served>>

\* The response has been sent; the thread's locals are gone.
Finish(t) ==
    /\ pc[t] = "done"
    /\ pc' = [pc EXCEPT ![t] = "idle"]
    /\ req' = [req EXCEPT ![t] = <<>>]
    /\ data' = [data EXCEPT ![t] = <<>>]
    /\ method' = [method EXCEPT ![t] = <<>>]
    /\ pred_value' = [pred_value EXCEPT ![t] = None]
    /\ pred_doc' = [pred_doc EXCEPT ![t] = <<>>]
    /\ inserted_id' = [inserted_id EXCEPT ![t] = NoId]
    /\ resp' = [resp EXCEPT ![t] = NoResp]
    /\ UNCHANGED <<store, computations, createCalls, served>>

Next ==
    \/ \E t \in Threads : Validate(t)
    \/ \E t \in Threads : Compute(t)
    \/ \E t \in Threads : Persist(t)
    \/ \E t \in Threads : Respond(t)

NextSeq ==
    \/ \E t \in Threads, r \in SeqRequests : Receive(t, r)
    \/ \E t \in Threads : Finish(t)
    \/ Next

Spec == Init /\ [][Next]_vars

SpecSeq == InitSeq /\ [][NextSeq]_vars

(***************************************************************************)
(* Reference definitions used by the properties                            *)
(***************************************************************************)
NotNull(x) == x # None

Strip(series) == SelectSeq(series, NotNull)

Clamp(x, lo, hi) == IF x < lo THEN lo ELSE IF x > hi THEN hi ELSE x

RECURSIVE IdxSum(_, _, _)
IdxSum(d, lo, hi) == IF lo > hi THEN R(0) ELSE RAdd(d[lo], IdxSum(d, lo + 1, hi))

\* arithmetic mean of the trailing w elements of d
TrailingMean(d, w) == RDivInt(IdxSum(d, Len(d) - w + 1, Len(d)), w)

\* estimate after consuming d[1..k]
RECURSIVE EmaRef(_, _, _)
EmaRef(d, a, k) ==
    IF k = 1 THEN d[1]
    ELSE RAdd(RMul(a, d[k]), RMul(RSub(R(1), a), EmaRef(d, a, k - 1)))

Returned(t) == pc[t] = "done" /\ resp[t].kind = "ok"

Validated(t) == pc[t] \in {"checked", "computed", "persisted", "done"}

InFlight == {t \in Threads : pc[t] = "computed"}

\* the part of a response that does not depend on persistence
Outcome(r) ==
    IF r.kind = "ok" THEN <<"ok", r.predicted, r.method, r.window>>
    ELSE IF r.kind = "http_error" THEN <<"http_error", r.status, r.detail>>
    ELSE <<r.kind>>

(***************************************************************************)
(* C1: for a cleaned series of at least 2 points and method 'sma', the     *)
(* returned value is the mean of the trailing w elements of the cleaned    *)
(* series, w = max(1, min(window, len)); window >= len gives the mean of   *)
(* the whole series and window <= 0 gives the last element.                *)
(***************************************************************************)
C1_SmaTrailingMean ==
    \A t \in Threads :
        (pc[t] = "done" /\ Len(Strip(req[t][1].series)) >= 2 /\ method[t] = sma) =>
            LET d == Strip(req[t][1].series)
                n == Len(d)
                window == req[t][1].window
            IN  /\ resp[t].kind = "ok"
                /\ resp[t].predicted = TrailingMean(d, Clamp(window, 1, n))
                /\ window >= n => resp[t].predicted = RDivInt(IdxSum(d, 1, n), n)
                /\ window <= 0 => resp[t].predicted = d[n]

C1_Witness ==
    \E t \in Threads :
        /\ Returned(t) /\ method[t] = sma
        /\ Len(data[t]) = 3 /\ req[t][1].window = 2
        /\ resp[t].predicted # data[t][3]
        /\ resp[t].predicted # RDivInt(IdxSum(data[t], 1, 3), 3)

(***************************************************************************)
(* C2: for a cleaned series of at least 2 points and method 'ema', a       *)
(* returned value is the left-to-right fold e = a*v + (1-a)*e over         *)
(* data[1:] started at data[0], with a the supplied alpha when present     *)
(* and 2/(window+1), window unclamped, when absent.                        *)
(***************************************************************************)
C2_EmaFold ==
    \A t \in Threads :
        (Returned(t) /\ method[t] = ema) =>
            LET d == Strip(req[t][1].series)
                r == req[t][1]
                a == IF r.alpha # None THEN r.alpha ELSE Frac(2, r.window + 1)
            IN  /\ Len(d) >= 2
                /\ resp[t].predicted = EmaRef(d, a, Len(d))

C2_Witness ==
    \E t \in Threads :
        /\ Returned(t) /\ method[t] = ema
        /\ req[t][1].alpha = None /\ req[t][1].window = 0
        /\ Len(data[t]) = 3
        /\ resp[t].predicted # data[t][3]

(***************************************************************************)
(* C3: predict either fails with one of the two validation errors (series  *)
(* too short, unknown method) or returns a number; no other failure is     *)
(* reachable.                                                              *)
(***************************************************************************)
C3_OnlyValidationErrors ==
    \A t \in Threads :
        pc[t] = "done" =>
            \/ resp[t].kind = "ok"
            \/ resp[t].kind = "http_error" /\ resp[t].status = 400

(***************************************************************************)
(* C4: a request whose cleaned series has fewer than 2 points is rejected  *)
(* with the series-too-short error (400) whatever the method, window and   *)
(* alpha; no value is produced and create is never called.                 *)
(***************************************************************************)
C4_TooShortRejected ==
    \A t \in Threads :
        (pc[t] # "idle" /\ pc[t] # "start" /\ Len(Strip(req[t][1].series)) < 2) =>
            /\ pc[t] = "done"
            /\ resp[t] = ErrTooShort
            /\ pred_value[t] = None
            /\ pred_doc[t] = <<>>
            /\ computations = 0
            /\ createCalls = 0
            /\ store = <<>>

C4_Witness ==
    \E t \in Threads :
        /\ pc[t] = "done" /\ resp[t] = ErrTooShort
        /\ Len(req[t][1].series) = 3
        /\ Lower(req[t][1].method) \notin {sma, ema}

(***************************************************************************)
(* C5: with a valid series the request is computed iff lowercase(method)   *)
(* is 'sma' or 'ema', the response carries the lowercase method, and any   *)
(* other method is rejected with the unknown-method error (400) with no    *)
(* computation and no call to create.                                      *)
(***************************************************************************)
C5_MethodClosed ==
    \A t \in Threads :
        (pc[t] = "done" /\ Len(Strip(req[t][1].series)) >= 2) =>
            LET m == Lower(req[t][1].method)
            IN  /\ resp[t].kind = "ok" <=> m \in {sma, ema}
                /\ resp[t].kind = "ok" => resp[t].method = m
                /\ m \notin {sma, ema} =>
                      /\ resp[t] = ErrUnknownMethod
                      /\ pred_value[t] = None
                      /\ createCalls = 0

(***************************************************************************)
(* C6: once the computation has succeeded the request returns predicted,   *)
(* method and window as computed whether the persistence step succeeds or  *)
(* fails (record rejected or create raising); a failure only makes         *)
(* saved_id null, a success makes it the id of the stored record.          *)
(***************************************************************************)
C6_PersistenceNeverFailsRequest ==
    \A t \in Threads :
        (pc[t] = "done" /\ pred_value[t] # None) =>
            /\ resp[t].kind = "ok"
            /\ resp[t].predicted = pred_value[t]
            /\ resp[t].method = Lower(req[t][1].method)
            /\ resp[t].window = req[t][1].window
            /\ \/ resp[t].saved_id = NoId /\ store = <<>>
               \/ /\ resp[t].saved_id \in 1..Len(store)
                  /\ pred_doc[t] = <<store[resp[t].saved_id]>>

C6_Witness ==
    \E t \in Threads :
        /\ Returned(t)
        /\ pred_doc[t] # <<>>
        /\ resp[t].saved_id = NoId
        /\ createCalls = 1

(***************************************************************************)
(* C7: every successful computation makes exactly one create call, for a   *)
(* record holding the lowercase method, the request's window, the cleaned  *)
(* series and the predicted value; the number of create calls equals the   *)
(* number of successful computations.                                      *)
(***************************************************************************)
C7_OneCreatePerComputation ==
    /\ createCalls = computations - Cardinality(InFlight)
    /\ \A t \in Threads :
          pred_doc[t] # <<>> =>
              pred_doc[t][1] = PredictionDoc(Lower(req[t][1].method), req[t][1].window,
                                             Strip(req[t][1].series), pred_value[t])

C9_SameInputsSameOutput ==
    \A t1, t2 \in Threads :
        (pc[t1] = "done" /\ pc[t2] = "done" /\ req[t1] = req[t2]) =>
            Outcome(resp[t1]) = Outcome(resp[t2])

C9_Witness ==
    /\ pc["t1"] = "done" /\ pc["t2"] = "done"
    /\ req["t1"] = req["t2"]
    /\ Returned("t1") /\ Returned("t2")
    /\ method["t1"] = ema
    /\ resp["t1"].saved_id = NoId
    /\ resp["t2"].saved_id = 2
    /\ store[1].predicted_value # resp["t1"].predicted

(***************************************************************************)
(* C10: every record passed to create has method 'sma' or 'ema', a window  *)
(* in 1..90, at least 2 input points and a predicted value >= 0; a         *)
(* computed request with a window outside 1..90 or a negative value        *)
(* stores nothing and returns saved_id null with its predicted value.      *)
(***************************************************************************)
RecordOk(doc) ==
    /\ doc.method \in {sma, ema}
    /\ doc.window \in 1..90
    /\ Len(doc.input_points) >= 2
    /\ doc.predicted_value[1] >= 0

C10_StoredRecordsValid ==
    /\ \A i \in 1..Len(store) : RecordOk(store[i])
    /\ \A t \in Threads :
          /\ pred_doc[t] # <<>> => RecordOk(pred_doc[t][1])
          /\ (pc[t] \in {"persisted", "done"} /\ pred_value[t] # None
                /\ (req[t][1].window \notin 1..90 \/ pred_value[t][1] < 0)) =>
                /\ pred_doc[t] = <<>>
                /\ inserted_id[t] = NoId
                /\ pc[t] = "done" =>
                      /\ resp[t].kind = "ok"
                      /\ resp[t].saved_id = NoId
                      /\ resp[t].predicted = pred_value[t]

C10_Witness ==
    \E t \in Threads :
        /\ Returned(t)
        /\ req[t][1].window = 91
        /\ resp[t].predicted[1] > 0
        /\ resp[t].saved_id = NoId
        /\ Len(store) = 1

====
